---- MODULE Spec2Model ----
(***************************************************************************)
(* A model of the PTY session registry (src-tauri/src/pty/manager.rs) and  *)
(* of one PTY session with its background reader thread                    *)
(* (src-tauri/src/pty/session.rs).                                         *)
(*                                                                         *)
(* Caller threads invoke the registry operations; every operation is split *)
(* at the points where the code can block or where another thread can      *)
(* observe an intermediate state: lock acquisitions, the blocking PTY      *)
(* write, the blocking PTY read.  Reader threads run read_output.  The     *)
(* operating-system side of a PTY (the child echoing its input, the child  *)
(* hanging up) is the environment.  The `running` flag is an atomic; a     *)
(* load returns the latest stored value.                                   *)
(*                                                                         *)
(* The actions are put together into three workloads.  Spec: two callers   *)
(* spawning, closing and querying two identifiers concurrently.  UseSpec:  *)
(* one caller using all six operations on two identifiers.  IoSpec: one    *)
(* caller and one identifier with the whole life of the PTY, the reader    *)
(* reading and emitting; IoFairSpec adds the scheduling of the readers.    *)
(***************************************************************************)
EXTENDS Integers, Sequences, FiniteSets, TLC

\* ---------------------------------------------------------------- bounds
\* Session objects ever constructed.
MaxObj == 2
\* Session objects ever constructed in IoSpec, where each has a whole PTY
\* life behind it.
MaxIoObj == 1
\* Bytes ever handed to write_to_session.
MaxIn == 2

\* PtySession::read_output's buffer, in bytes.
BufSize == 4096

Threads == {"t1", "t2", "t3"}
Ids == {"a", "b"}
\* The two callers of Spec.
Pair == {"t1", "t2"}
\* The caller of UseSpec and of IoSpec, and the identifier of IoSpec and of
\* LockSpec.
Users == {"t1"}
IoIds == {"a"}
\* The callers of LockSpec: one resizes and one closes what the user has
\* spawned and writes to.
Resizers == {"t2"}
Closers == {"t3"}
\* PtySession::spawn opens the PTY at 80 columns by 24 rows.
InitGeom == <<80, 24>>
Geoms == {<<80, 24>>, <<120, 40>>}

Objs == 1..MaxObj
NoObj == 0
NoThread == "none"
NoId == "none"

\* Byte sequences a caller passes to write_to_session.
Datas == {<<1>>, <<1, 2>>}

\* A block one byte longer than the reader's buffer, and how many of them
\* the callers may write in all.
Block == [i \in 1..(BufSize + 1) |-> i % 256]

MaxBlocks == 2

\* Data by which the bytes of each caller's writes are told apart, and how
\* many such writes the callers make in all.
Marked == [t \in Threads |-> IF t = "t1" THEN <<1, 2>>
                             ELSE IF t = "t2" THEN <<3, 4>> ELSE <<5, 6>>]

MaxWrites == 3

VARIABLES
  \* PtyState.sessions: the map and its RwLock (the threads holding it
  \* shared, the thread holding it exclusively, the thread parked for it
  \* exclusively).
  sessions, mapReaders, mapWriter, mapPending,
  \* Session objects: 1..nobj have been constructed.  wlock and mlock are the
  \* holders of the writer mutex and of the master mutex.
  nobj, sid, running, wlock, mlock,
  \* The PTY behind each object: bytes written to it, how many of them the
  \* child has echoed to the read side, whether it has hung up, its size.
  ptyIn, echoed, hup, geom,
  \* The reader thread of each object.
  rpc, rres, nread, events, emitFailed,
  \* Caller threads: where each is in its call, the call's arguments, the
  \* session it has resolved or constructed, how many bytes of its data
  \* write_all has handed to the PTY; and what the step that led to this
  \* state returned to the caller who took it.
  pc, argId, argData, argGeom, tobj, wdone, result,
  \* History: the last successful spawn/close per identifier; the number of
  \* notifications a session had emitted when close_session closed it; the
  \* bytes of the writes each session has acknowledged.
  lastSucc, evAtClose, accepted

regVars == <<sessions, mapReaders, mapWriter, mapPending>>
objVars == <<nobj, sid, running, wlock, mlock>>
ptyVars == <<ptyIn, echoed, hup, geom>>
readerVars == <<rpc, rres, nread, events, emitFailed>>
callVars == <<pc, argId, argData, argGeom, tobj, wdone>>
threadVars == <<callVars, result>>
histVars == <<lastSucc, evAtClose, accepted>>
vars == <<regVars, objVars, ptyVars, readerVars, threadVars, histVars>>

\* ------------------------------------------------------------- helpers
NoResult == [tag |-> "none", ids |-> <<>>]
Res(tag) == [tag |-> tag, ids |-> <<>>]
\* A step that returns nothing to anybody.
Quiet == result' = [t \in Threads |-> NoResult]

Min(a, b) == IF a < b THEN a ELSE b

\* HashMap::contains_key
contains_key(m, id) == m[id] # NoObj

\* The sequences HashMap::keys().cloned().collect() can produce: every key
\* once, in an order the map chooses.
KeySeqs(m) ==
  LET ks == {id \in Ids : contains_key(m, id)}
  IN {s \in UNION {[1..n -> Ids] : n \in 0..Cardinality(Ids)} :
        /\ Len(s) = Cardinality(ks)
        /\ {s[i] : i \in 1..Len(s)} = ks}

RECURSIVE SumLen(_, _)
SumLen(f, S) ==
  IF S = {} THEN 0
  ELSE LET x == CHOOSE y \in S : TRUE IN Len(f[x]) + SumLen(f, S \ {x})

WritePcs == {"w_lookup", "w_lock", "w_io"}
\* The bytes of t's data that write_all has yet to hand to the PTY.
Rest(t) == SubSeq(argData[t], wdone[t] + 1, Len(argData[t]))

\* Bytes already written to some PTY plus bytes of writes still in progress.
BytesInFlight ==
  SumLen(ptyIn, Objs)
    + SumLen([t \in Threads |-> IF pc[t] \in WritePcs
                                THEN Rest(t)
                                ELSE <<>>], Threads)

SpawnPcs == {"s_check", "s_construct"}
\* Objects constructed plus spawns that may still construct one.
ObjsInFlight == nobj + Cardinality({t \in Threads : pc[t] \in SpawnPcs})

\* parking_lot RwLock, which is task-fair.  read(): no writer is inside and
\* none is parked for the lock.  write(), for thread t: nobody is inside and
\* no other writer is parked ahead.
CanRead == mapWriter = NoThread /\ mapPending = NoThread
CanWrite(t) ==
  /\ mapWriter = NoThread
  /\ mapReaders = {}
  /\ mapPending \in {NoThread, t}

\* ---------------------------------------------------------------- Init
Init ==
  /\ sessions = [id \in Ids |-> NoObj]
  /\ mapReaders = {}
  /\ mapWriter = NoThread
  /\ mapPending = NoThread
  /\ nobj = 0
  /\ sid = [o \in Objs |-> NoId]
  /\ running = [o \in Objs |-> FALSE]
  /\ wlock = [o \in Objs |-> NoThread]
  /\ mlock = [o \in Objs |-> NoThread]
  /\ ptyIn = [o \in Objs |-> <<>>]
  /\ echoed = [o \in Objs |-> 0]
  /\ hup = [o \in Objs |-> FALSE]
  /\ geom = [o \in Objs |-> InitGeom]
  /\ rpc = [o \in Objs |-> "none"]
  /\ rres = [o \in Objs |-> "none"]
  /\ nread = [o \in Objs |-> 0]
  /\ events = [o \in Objs |-> <<>>]
  /\ emitFailed = [o \in Objs |-> FALSE]
  /\ pc = [t \in Threads |-> "idle"]
  /\ argId = [t \in Threads |-> NoId]
  /\ argData = [t \in Threads |-> <<>>]
  /\ argGeom = [t \in Threads |-> InitGeom]
  /\ tobj = [t \in Threads |-> NoObj]
  /\ wdone = [t \in Threads |-> 0]
  /\ result = [t \in Threads |-> NoResult]
  /\ lastSucc = [id \in Ids |-> "none"]
  /\ evAtClose = [o \in Objs |-> -1]
  /\ accepted = [o \in Objs |-> <<>>]

\* A caller thread enters an operation: its arguments are recorded.
Enter(t, p, id, d, g) ==
  /\ pc[t] = "idle"
  /\ pc' = [pc EXCEPT ![t] = p]
  /\ argId' = [argId EXCEPT ![t] = id]
  /\ argData' = [argData EXCEPT ![t] = d]
  /\ argGeom' = [argGeom EXCEPT ![t] = g]
  /\ tobj' = [tobj EXCEPT ![t] = NoObj]
  /\ wdone' = [wdone EXCEPT ![t] = 0]
  /\ Quiet
  /\ UNCHANGED <<regVars, objVars, ptyVars, readerVars, histVars>>

\* A caller thread returns r from its operation.
Return(t, r) ==
  /\ pc' = [pc EXCEPT ![t] = "idle"]
  /\ result' = [u \in Threads |-> IF u = t THEN r ELSE NoResult]
  /\ tobj' = [tobj EXCEPT ![t] = NoObj]
  /\ wdone' = [wdone EXCEPT ![t] = 0]
  /\ argId' = [argId EXCEPT ![t] = NoId]
  /\ argData' = [argData EXCEPT ![t] = <<>>]
  /\ argGeom' = [argGeom EXCEPT ![t] = InitGeom]

Goto(t, p) ==
  /\ pc' = [pc EXCEPT ![t] = p]
  /\ UNCHANGED <<argId, argData, argGeom, wdone>>
  /\ Quiet


\* ------------------------------------------------ PtyState::spawn_session
\* max: the number of session objects the workload constructs.
CallSpawn(t, id, max) ==
  /\ ObjsInFlight < max
  /\ Enter(t, "s_check", id, <<>>, InitGeom)

\* Mutant: the existence check is skipped.
SpawnCheck_NoCheck(t) ==
  /\ pc[t] = "s_check"
  /\ CanRead
  /\ Goto(t, "s_construct") /\ UNCHANGED tobj
  /\ UNCHANGED <<regVars, objVars, ptyVars, readerVars, histVars>>

\* Mutant: the read guard of the existence check lives on over the
\* construction and the insertion.
SpawnCheck_KeepLock(t) ==
  /\ pc[t] = "s_check"
  /\ CanRead
  /\ IF contains_key(sessions, argId[t])
     THEN Return(t, Res("AlreadyExists")) /\ UNCHANGED mapReaders
     ELSE /\ Goto(t, "s_construct") /\ UNCHANGED tobj
          /\ mapReaders' = mapReaders \cup {t}
  /\ UNCHANGED <<sessions, mapWriter, mapPending, objVars, ptyVars,
                 readerVars, histVars>>

\* The existence check under the read lock (released at the block's end).
SpawnCheck(t) ==
  /\ pc[t] = "s_check"
  /\ CanRead
  /\ IF contains_key(sessions, argId[t])
     THEN Return(t, Res("AlreadyExists"))
     ELSE Goto(t, "s_construct") /\ UNCHANGED tobj
  /\ UNCHANGED <<regVars, objVars, ptyVars, readerVars, histVars>>

\* PtySession::spawn: on success a new object, its liveness flag set and
\* its reader thread started; on failure the error and nothing else.
NewSession(o, id) ==
  /\ nobj' = o
  /\ sid' = [sid EXCEPT ![o] = id]
  /\ running' = [running EXCEPT ![o] = TRUE]
  /\ rpc' = [rpc EXCEPT ![o] = "loop"]
  /\ geom' = [geom EXCEPT ![o] = InitGeom]
  /\ UNCHANGED <<wlock, mlock, ptyIn, echoed, hup, rres, nread, events,
                 emitFailed>>

\* Mutant: the reader thread is started before the handles are obtained, so
\* a failure leaves it behind.
SpawnConstruct_ReaderFirst(t) ==
  /\ pc[t] = "s_construct"
  /\ \/ /\ nobj < MaxObj
        /\ NewSession(nobj + 1, argId[t])
        /\ Return(t, Res("SpawnError"))
     \/ /\ nobj < MaxObj
        /\ NewSession(nobj + 1, argId[t])
        /\ Goto(t, "s_insert")
        /\ tobj' = [tobj EXCEPT ![t] = nobj + 1]
  /\ UNCHANGED <<regVars, histVars>>

SpawnConstruct(t) ==
  /\ pc[t] = "s_construct"
  /\ \/ /\ Return(t, Res("SpawnError"))
        /\ UNCHANGED <<objVars, ptyVars, readerVars>>
     \/ /\ nobj < MaxObj
        /\ NewSession(nobj + 1, argId[t])
        /\ Goto(t, "s_insert")
        /\ tobj' = [tobj EXCEPT ![t] = nobj + 1]
  /\ UNCHANGED <<regVars, histVars>>

\* Mutant: close() flips the flag.
close_Toggle(r, o) == [r EXCEPT ![o] = ~@]

\* PtySession::close, and Drop for PtySession which calls it.
close(r, o) == [r EXCEPT ![o] = FALSE]

\* sessions.write() called while other threads hold the lock shared: the
\* caller is parked for it, and from now on read() waits behind it.
WriterWait(t) ==
  /\ pc[t] \in {"s_insert", "c_remove"}
  /\ mapWriter = NoThread
  /\ mapReaders # {}
  /\ mapPending = NoThread
  /\ mapPending' = t
  /\ UNCHANGED <<sessions, mapReaders, mapWriter, objVars, ptyVars, readerVars,
                 callVars, histVars>>
  /\ Quiet

\* Mutant: the constructed session is not stored.
SpawnInsert_NoInsert(t) ==
  /\ pc[t] = "s_insert"
  /\ CanWrite(t)
  /\ mapPending' = NoThread
  /\ lastSucc' = [lastSucc EXCEPT ![argId[t]] = "spawn"]
  /\ Return(t, Res("Ok"))
  /\ UNCHANGED <<sessions, mapReaders, mapWriter, objVars, ptyVars, readerVars,
                 evAtClose, accepted>>

\* Mutant: the session displaced by the insert is kept alive, not dropped.
SpawnInsert_KeepDisplaced(t) ==
  /\ pc[t] = "s_insert"
  /\ CanWrite(t)
  /\ mapPending' = NoThread
  /\ sessions' = [sessions EXCEPT ![argId[t]] = tobj[t]]
  /\ lastSucc' = [lastSucc EXCEPT ![argId[t]] = "spawn"]
  /\ Return(t, Res("Ok"))
  /\ UNCHANGED <<mapReaders, mapWriter, objVars, ptyVars, readerVars,
                 evAtClose, accepted>>

\* HashMap::insert under the write lock; a displaced session is dropped.
SpawnInsert(t) ==
  /\ pc[t] = "s_insert"
  /\ CanWrite(t)
  /\ mapPending' = NoThread
  /\ LET old == sessions[argId[t]] IN
       /\ sessions' = [sessions EXCEPT ![argId[t]] = tobj[t]]
       /\ running' = IF old # NoObj THEN close(running, old) ELSE running
  /\ lastSucc' = [lastSucc EXCEPT ![argId[t]] = "spawn"]
  /\ Return(t, Res("Ok"))
  /\ UNCHANGED <<mapReaders, mapWriter, nobj, sid, wlock, mlock, ptyVars,
                 readerVars, evAtClose, accepted>>

\* --------------------------------------------- PtyState::write_to_session
CallWrite(t, id, d) ==
  /\ BytesInFlight + Len(d) <= MaxIn
  /\ Enter(t, "w_lookup", id, d, InitGeom)

\* A caller hands over one block that is a byte longer than the reader's
\* buffer.
CallWriteBlock(t, id) ==
  /\ BytesInFlight + Len(Block) <= MaxBlocks * Len(Block)
  /\ Enter(t, "w_lookup", id, Block, InitGeom)

\* A caller hands over the data that tells its writes from the others'.
CallWriteMarked(t, id) ==
  /\ BytesInFlight + Len(Marked[t]) <= MaxWrites * Len(Marked[t])
  /\ Enter(t, "w_lookup", id, Marked[t], InitGeom)

\* Mutant: the session is looked up among all sessions ever constructed
\* under the identifier instead of in the map.
WriteLookup_Stale(t) ==
  /\ pc[t] = "w_lookup"
  /\ CanRead
  /\ IF \E o \in 1..nobj : sid[o] = argId[t]
     THEN \E o \in 1..nobj :
            /\ sid[o] = argId[t]
            /\ mapReaders' = mapReaders \cup {t}
            /\ Goto(t, "w_lock")
            /\ tobj' = [tobj EXCEPT ![t] = o]
     ELSE /\ Return(t, Res("NotFound"))
          /\ UNCHANGED mapReaders
  /\ UNCHANGED <<sessions, mapWriter, mapPending, objVars, ptyVars, readerVars,
                 histVars>>

\* sessions.read() and get(): the read guard lives until the function
\* returns, at once when the identifier is absent.
WriteLookup(t) ==
  /\ pc[t] = "w_lookup"
  /\ CanRead
  /\ IF contains_key(sessions, argId[t])
     THEN /\ mapReaders' = mapReaders \cup {t}
          /\ Goto(t, "w_lock")
          /\ tobj' = [tobj EXCEPT ![t] = sessions[argId[t]]]
     ELSE /\ Return(t, Res("NotFound"))
          /\ UNCHANGED mapReaders
  /\ UNCHANGED <<sessions, mapWriter, mapPending, objVars, ptyVars, readerVars,
                 histVars>>

\* Mutant: the write goes ahead without the writer mutex.
WriteLock_NoLock(t) ==
  /\ pc[t] = "w_lock"
  /\ Goto(t, "w_io") /\ UNCHANGED tobj
  /\ UNCHANGED <<regVars, objVars, ptyVars, readerVars, histVars>>

\* PtySession::write: self.writer.lock()
WriteLock(t) ==
  /\ pc[t] = "w_lock"
  /\ wlock[tobj[t]] = NoThread
  /\ wlock' = [wlock EXCEPT ![tobj[t]] = t]
  /\ Goto(t, "w_io") /\ UNCHANGED tobj
  /\ UNCHANGED <<regVars, nobj, sid, running, mlock, ptyVars, readerVars,
                 histVars>>

\* The function returns: both guards are released.
WriteRelease(t) ==
  /\ wlock' = [wlock EXCEPT ![tobj[t]] = NoThread]
  /\ mapReaders' = mapReaders \ {t}
  /\ UNCHANGED <<sessions, mapWriter, mapPending, nobj, sid, running, mlock,
                 echoed, hup, geom, readerVars, lastSucc, evAtClose>>

\* Mutant: write instead of write_all, a short write goes unnoticed.
WriteAll_Short(t) ==
  /\ pc[t] = "w_io"
  /\ ptyIn' = [ptyIn EXCEPT ![tobj[t]] = Append(@, Head(argData[t]))]
  /\ accepted' = [accepted EXCEPT ![tobj[t]] = @ \o argData[t]]
  /\ Return(t, Res("Ok"))
  /\ WriteRelease(t)

\* One turn of write_all's loop: the PTY takes the next byte of the data.
WriteSome(t) ==
  /\ pc[t] = "w_io"
  /\ wdone[t] < Len(argData[t])
  /\ ptyIn' = [ptyIn EXCEPT ![tobj[t]] = Append(@, argData[t][wdone[t] + 1])]
  /\ wdone' = [wdone EXCEPT ![t] = @ + 1]
  /\ UNCHANGED <<pc, argId, argData, argGeom, tobj>>
  /\ UNCHANGED <<regVars, objVars, echoed, hup, geom, readerVars, histVars>>
  /\ Quiet

\* write_all hands every byte to the PTY, in order, and flush succeeds.
WriteAll(t) ==
  /\ pc[t] = "w_io"
  /\ ptyIn' = [ptyIn EXCEPT ![tobj[t]] = @ \o Rest(t)]
  /\ accepted' = [accepted EXCEPT ![tobj[t]] = @ \o argData[t]]
  /\ Return(t, Res("Ok"))
  /\ WriteRelease(t)

\* write_all or flush is rejected by a PTY that has hung up; write_all may
\* have handed over some of the bytes before.
WriteFail(t) ==
  /\ pc[t] = "w_io"
  /\ hup[tobj[t]]
  /\ \E k \in wdone[t]..(Len(argData[t]) - 1) :
       ptyIn' = [ptyIn EXCEPT ![tobj[t]] = @ \o SubSeq(argData[t], wdone[t] + 1, k)]
  /\ UNCHANGED accepted
  /\ Return(t, Res("IoError"))
  /\ WriteRelease(t)

\* ----------------------------------------------- PtyState::resize_session
CallResize(t, id, g) == Enter(t, "r_lookup", id, <<>>, g)

\* Mutant: a missing session is skipped and the call reports success.
ResizeLookup_IgnoreMissing(t) ==
  /\ pc[t] = "r_lookup"
  /\ CanRead
  /\ IF contains_key(sessions, argId[t])
     THEN /\ mapReaders' = mapReaders \cup {t}
          /\ Goto(t, "r_lock")
          /\ tobj' = [tobj EXCEPT ![t] = sessions[argId[t]]]
     ELSE /\ Return(t, Res("Ok"))
          /\ UNCHANGED mapReaders
  /\ UNCHANGED <<sessions, mapWriter, mapPending, objVars, ptyVars, readerVars,
                 histVars>>

\* sessions.read() and get(), as in write_to_session.
ResizeLookup(t) ==
  /\ pc[t] = "r_lookup"
  /\ CanRead
  /\ IF contains_key(sessions, argId[t])
     THEN /\ mapReaders' = mapReaders \cup {t}
          /\ Goto(t, "r_lock")
          /\ tobj' = [tobj EXCEPT ![t] = sessions[argId[t]]]
     ELSE /\ Return(t, Res("NotFound"))
          /\ UNCHANGED mapReaders
  /\ UNCHANGED <<sessions, mapWriter, mapPending, objVars, ptyVars, readerVars,
                 histVars>>

\* PtySession::resize: self.master.lock()
ResizeLock(t) ==
  /\ pc[t] = "r_lock"
  /\ mlock[tobj[t]] = NoThread
  /\ mlock' = [mlock EXCEPT ![tobj[t]] = t]
  /\ Goto(t, "r_io") /\ UNCHANGED tobj
  /\ UNCHANGED <<regVars, nobj, sid, running, wlock, ptyVars, readerVars,
                 histVars>>

\* Mutant: a resize the PTY rejects closes the session.
ResizeApply_CloseOnError(t) ==
  /\ pc[t] = "r_io"
  /\ \/ /\ geom' = [geom EXCEPT ![tobj[t]] = argGeom[t]]
        /\ Return(t, Res("Ok"))
        /\ UNCHANGED running
     \/ /\ hup[tobj[t]]
        /\ UNCHANGED geom
        /\ running' = close(running, tobj[t])
        /\ Return(t, Res("IoError"))
  /\ mlock' = [mlock EXCEPT ![tobj[t]] = NoThread]
  /\ mapReaders' = mapReaders \ {t}
  /\ UNCHANGED <<sessions, mapWriter, mapPending, nobj, sid, wlock,
                 ptyIn, echoed, hup, readerVars, histVars>>

\* master.resize applies the size, or a PTY that has hung up rejects it;
\* the function returns and both guards are released.
ResizeApply(t) ==
  /\ pc[t] = "r_io"
  /\ \/ /\ geom' = [geom EXCEPT ![tobj[t]] = argGeom[t]]
        /\ Return(t, Res("Ok"))
     \/ /\ hup[tobj[t]]
        /\ UNCHANGED geom
        /\ Return(t, Res("IoError"))
  /\ mlock' = [mlock EXCEPT ![tobj[t]] = NoThread]
  /\ mapReaders' = mapReaders \ {t}
  /\ UNCHANGED <<sessions, mapWriter, mapPending, nobj, sid, running, wlock,
                 ptyIn, echoed, hup, readerVars, histVars>>

\* ------------------------------------------------ PtyState::close_session
CallClose(t, id) == Enter(t, "c_remove", id, <<>>, InitGeom)

\* Mutant: get instead of remove, the entry stays in the map.
CloseRemove_NoRemove(t) ==
  /\ pc[t] = "c_remove"
  /\ CanWrite(t)
  /\ mapPending' = NoThread
  /\ IF contains_key(sessions, argId[t])
     THEN /\ mapWriter' = t
          /\ UNCHANGED sessions
          /\ Goto(t, "c_close")
          /\ tobj' = [tobj EXCEPT ![t] = sessions[argId[t]]]
     ELSE /\ Return(t, Res("NotFound"))
          /\ UNCHANGED <<sessions, mapWriter>>
  /\ UNCHANGED <<mapReaders, objVars, ptyVars, readerVars, histVars>>

\* Mutant: the write guard is dropped once the entry is removed.
CloseRemove_Unlocked(t) ==
  /\ pc[t] = "c_remove"
  /\ CanWrite(t)
  /\ mapPending' = NoThread
  /\ IF contains_key(sessions, argId[t])
     THEN /\ UNCHANGED mapWriter
          /\ sessions' = [sessions EXCEPT ![argId[t]] = NoObj]
          /\ Goto(t, "c_close")
          /\ tobj' = [tobj EXCEPT ![t] = sessions[argId[t]]]
     ELSE /\ Return(t, Res("NotFound"))
          /\ UNCHANGED <<sessions, mapWriter>>
  /\ UNCHANGED <<mapReaders, objVars, ptyVars, readerVars, histVars>>

\* sessions.write() and remove(): absent, the guard is dropped on return.
CloseRemove(t) ==
  /\ pc[t] = "c_remove"
  /\ CanWrite(t)
  /\ mapPending' = NoThread
  /\ IF contains_key(sessions, argId[t])
     THEN /\ mapWriter' = t
          /\ sessions' = [sessions EXCEPT ![argId[t]] = NoObj]
          /\ Goto(t, "c_close")
          /\ tobj' = [tobj EXCEPT ![t] = sessions[argId[t]]]
     ELSE /\ Return(t, Res("NotFound"))
          /\ UNCHANGED <<sessions, mapWriter>>
  /\ UNCHANGED <<mapReaders, objVars, ptyVars, readerVars, histVars>>

\* session.close() on the removed session.
CloseFlag(t) ==
  /\ pc[t] = "c_close"
  /\ running' = close(running, tobj[t])
  /\ evAtClose' = [evAtClose EXCEPT ![tobj[t]] = Len(events[tobj[t]])]
  /\ Goto(t, "c_drop") /\ UNCHANGED tobj
  /\ UNCHANGED <<regVars, nobj, sid, wlock, mlock, ptyVars, readerVars,
                 lastSucc, accepted>>

\* The removed session goes out of scope, Drop calls close() again; the
\* function returns Ok and the write guard is dropped.
CloseDrop(t) ==
  /\ pc[t] = "c_drop"
  /\ running' = close(running, tobj[t])
  /\ mapWriter' = NoThread
  /\ lastSucc' = [lastSucc EXCEPT ![argId[t]] = "close"]
  /\ Return(t, Res("Ok"))
  /\ UNCHANGED <<sessions, mapReaders, mapPending, nobj, sid, wlock, mlock,
                 ptyVars, readerVars, evAtClose, accepted>>

\* ---------------------------------- PtyState::list_sessions, has_session
CallList(t) == Enter(t, "list", NoId, <<>>, InitGeom)

\* Mutant: the identifiers of closed sessions stay in the listing.
ListSessions_Stale(t) ==
  /\ pc[t] = "list"
  /\ CanRead
  /\ \E s \in KeySeqs([id \in Ids |-> IF lastSucc[id] = "none"
                                      THEN sessions[id] ELSE 1]) :
       Return(t, [tag |-> "list", ids |-> s])
  /\ UNCHANGED <<regVars, objVars, ptyVars, readerVars, histVars>>

\* sessions.keys().cloned().collect() under the read lock.
ListSessions(t) ==
  /\ pc[t] = "list"
  /\ CanRead
  /\ \E s \in KeySeqs(sessions) : Return(t, [tag |-> "list", ids |-> s])
  /\ UNCHANGED <<regVars, objVars, ptyVars, readerVars, histVars>>

CallHas(t, id) == Enter(t, "has", id, <<>>, InitGeom)

HasSession(t) ==
  /\ pc[t] = "has"
  /\ CanRead
  /\ Return(t, Res(IF contains_key(sessions, argId[t]) THEN "true" ELSE "false"))
  /\ UNCHANGED <<regVars, objVars, ptyVars, readerVars, histVars>>


\* ------------------------------------------------ PtySession::read_output
OutputEvent(d) == [kind |-> "output", data |-> d, code |-> "na"]
\* exit_code: Some(0) at end-of-stream, None after a read error.
ExitEvent(c) == [kind |-> "exit", data |-> <<>>, code |-> c]

\* Mutant: the loop never looks at the liveness flag.
ReaderCheck_NoFlag(o) ==
  /\ rpc[o] = "loop"
  /\ rpc' = [rpc EXCEPT ![o] = "read"]
  /\ UNCHANGED <<rres, nread, events, emitFailed>>
  /\ UNCHANGED <<regVars, objVars, ptyVars, callVars, histVars>>
  /\ Quiet

\* Mutant: the loop announces its end when it finds the flag cleared.
ReaderCheck_ExitOnClose(o) ==
  /\ rpc[o] = "loop"
  /\ rpc' = [rpc EXCEPT ![o] = IF ~running[o] THEN "done" ELSE "read"]
  /\ events' = [events EXCEPT ![o] = IF ~running[o]
                                      THEN Append(@, [kind |-> "exit",
                                                      data |-> <<>>,
                                                      code |-> "None"])
                                      ELSE @]
  /\ UNCHANGED <<rres, nread, emitFailed>>
  /\ UNCHANGED <<regVars, objVars, ptyVars, callVars, histVars>>
  /\ Quiet

\* Mutant: continue instead of break when the flag is cleared.
ReaderCheck_Continue(o) ==
  /\ rpc[o] = "loop"
  /\ rpc' = [rpc EXCEPT ![o] = IF ~running[o] THEN "loop" ELSE "read"]
  /\ UNCHANGED <<rres, nread, events, emitFailed>>
  /\ UNCHANGED <<regVars, objVars, ptyVars, callVars, histVars>>
  /\ Quiet

\* The head of the loop: running.load()
ReaderCheck(o) ==
  /\ rpc[o] = "loop"
  /\ rpc' = [rpc EXCEPT ![o] = IF ~running[o] THEN "done" ELSE "read"]
  /\ UNCHANGED <<rres, nread, events, emitFailed>>
  /\ UNCHANGED <<regVars, objVars, ptyVars, callVars, histVars>>
  /\ Quiet

\* app.emit: the notification is handed to the event channel; a failure is
\* ignored (let _ =) and only remembered here.
Emit(o, e, ok) ==
  /\ events' = [events EXCEPT ![o] = Append(@, e)]
  /\ emitFailed' = [emitFailed EXCEPT ![o] = @ \/ ~ok]

\* Mutant: the Ok(0) arm does not break.
ReaderRead_NoBreak(o) ==
  /\ rpc[o] = "read"
  /\ \E ok \in BOOLEAN :
       \/ \E n \in 1..Min(BufSize, echoed[o] - nread[o]) :
            /\ Emit(o, OutputEvent(SubSeq(ptyIn[o], nread[o] + 1, nread[o] + n)), ok)
            /\ nread' = [nread EXCEPT ![o] = @ + n]
            /\ rpc' = [rpc EXCEPT ![o] = "loop"]
            /\ UNCHANGED rres
       \/ /\ hup[o]
          /\ nread[o] = echoed[o]
          /\ Emit(o, ExitEvent("Some0"), ok)
          /\ rres' = [rres EXCEPT ![o] = "eof"]
          /\ rpc' = [rpc EXCEPT ![o] = "loop"]
          /\ UNCHANGED nread
       \/ /\ hup[o]
          /\ Emit(o, ExitEvent("None"), ok)
          /\ rres' = [rres EXCEPT ![o] = "err"]
          /\ rpc' = [rpc EXCEPT ![o] = "done"]
          /\ UNCHANGED nread
  /\ UNCHANGED <<regVars, objVars, ptyVars, callVars, histVars>>
  /\ Quiet

\* Mutant: after a successful read the loop reads again without going
\* through its head.
ReaderRead_NoRecheck(o) ==
  /\ rpc[o] = "read"
  /\ \E ok \in BOOLEAN :
       \/ \E n \in 1..Min(BufSize, echoed[o] - nread[o]) :
            /\ Emit(o, OutputEvent(SubSeq(ptyIn[o], nread[o] + 1, nread[o] + n)), ok)
            /\ nread' = [nread EXCEPT ![o] = @ + n]
            /\ rpc' = [rpc EXCEPT ![o] = "read"]
            /\ UNCHANGED rres
       \/ /\ hup[o]
          /\ nread[o] = echoed[o]
          /\ Emit(o, ExitEvent("Some0"), ok)
          /\ rres' = [rres EXCEPT ![o] = "eof"]
          /\ rpc' = [rpc EXCEPT ![o] = "done"]
          /\ UNCHANGED nread
       \/ /\ hup[o]
          /\ Emit(o, ExitEvent("None"), ok)
          /\ rres' = [rres EXCEPT ![o] = "err"]
          /\ rpc' = [rpc EXCEPT ![o] = "done"]
          /\ UNCHANGED nread
  /\ UNCHANGED <<regVars, objVars, ptyVars, callVars, histVars>>
  /\ Quiet

\* Mutant: the Err arm reports exit code Some(0) too.
ReaderRead_ZeroOnError(o) ==
  /\ rpc[o] = "read"
  /\ \E ok \in BOOLEAN :
       \/ \E n \in 1..Min(BufSize, echoed[o] - nread[o]) :
            /\ Emit(o, OutputEvent(SubSeq(ptyIn[o], nread[o] + 1, nread[o] + n)), ok)
            /\ nread' = [nread EXCEPT ![o] = @ + n]
            /\ rpc' = [rpc EXCEPT ![o] = "loop"]
            /\ UNCHANGED rres
       \/ /\ hup[o]
          /\ nread[o] = echoed[o]
          /\ Emit(o, ExitEvent("Some0"), ok)
          /\ rres' = [rres EXCEPT ![o] = "eof"]
          /\ rpc' = [rpc EXCEPT ![o] = "done"]
          /\ UNCHANGED nread
       \/ /\ hup[o]
          /\ Emit(o, ExitEvent("Some0"), ok)
          /\ rres' = [rres EXCEPT ![o] = "err"]
          /\ rpc' = [rpc EXCEPT ![o] = "done"]
          /\ UNCHANGED nread
  /\ UNCHANGED <<regVars, objVars, ptyVars, callVars, histVars>>
  /\ Quiet

\* Mutant: the notification carries the buffer from its start instead of
\* the n bytes just read.
ReaderRead_WholeBuffer(o) ==
  /\ rpc[o] = "read"
  /\ \E ok \in BOOLEAN :
       \/ \E n \in 1..Min(BufSize, echoed[o] - nread[o]) :
            /\ Emit(o, OutputEvent(SubSeq(ptyIn[o], 1, nread[o] + n)), ok)
            /\ nread' = [nread EXCEPT ![o] = @ + n]
            /\ rpc' = [rpc EXCEPT ![o] = "loop"]
            /\ UNCHANGED rres
       \/ /\ hup[o]
          /\ nread[o] = echoed[o]
          /\ Emit(o, ExitEvent("Some0"), ok)
          /\ rres' = [rres EXCEPT ![o] = "eof"]
          /\ rpc' = [rpc EXCEPT ![o] = "done"]
          /\ UNCHANGED nread
       \/ /\ hup[o]
          /\ Emit(o, ExitEvent("None"), ok)
          /\ rres' = [rres EXCEPT ![o] = "err"]
          /\ rpc' = [rpc EXCEPT ![o] = "done"]
          /\ UNCHANGED nread
  /\ UNCHANGED <<regVars, objVars, ptyVars, callVars, histVars>>
  /\ Quiet

\* The most one read can return: what is pending, cut to the buffer, since
\* read(&mut buffer) fills no more than buffer.len() bytes.
ReadMax_Unbounded(o) == echoed[o] - nread[o]

ReadMax(o) == Min(BufSize, echoed[o] - nread[o])

\* reader.read(&mut buffer) returns and its match arm runs.  Ok(n): some of
\* the pending bytes, at most a buffer full, are emitted as one output
\* notification and the loop goes on.  Ok(0), once the PTY has hung up and
\* is drained: exit with Some(0), break.  Err, once the PTY has hung up:
\* exit with None, break.  With nothing pending and no hang-up the read
\* stays blocked.  The reader touches nothing the callers read, so the read
\* and the emit are one step.  sizes are the byte counts the read may return.
ReaderReadOf(o, sizes) ==
  /\ rpc[o] = "read"
  /\ \E ok \in BOOLEAN :
       \/ \E n \in (1..ReadMax(o)) \cap sizes :
            /\ Emit(o, OutputEvent(SubSeq(ptyIn[o], nread[o] + 1, nread[o] + n)), ok)
            /\ nread' = [nread EXCEPT ![o] = @ + n]
            /\ rpc' = [rpc EXCEPT ![o] = "loop"]
            /\ UNCHANGED rres
       \/ /\ hup[o]
          /\ nread[o] = echoed[o]
          /\ Emit(o, ExitEvent("Some0"), ok)
          /\ rres' = [rres EXCEPT ![o] = "eof"]
          /\ rpc' = [rpc EXCEPT ![o] = "done"]
          /\ UNCHANGED nread
       \/ /\ hup[o]
          /\ Emit(o, ExitEvent("None"), ok)
          /\ rres' = [rres EXCEPT ![o] = "err"]
          /\ rpc' = [rpc EXCEPT ![o] = "done"]
          /\ UNCHANGED nread
  /\ UNCHANGED <<regVars, objVars, ptyVars, callVars, histVars>>
  /\ Quiet

\* The read returns any number of bytes the buffer allows.
ReaderRead(o) == ReaderReadOf(o, 1..BufSize)

\* The read returns all there is, up to a buffer full: the kernel hands a
\* burst over at once.
ReaderReadFull(o) == ReaderReadOf(o, {ReadMax(o)})

\* ------------------------------------------------------------ environment
\* The child's terminal echoes the next byte of its input.
Echo(o) ==
  /\ o <= nobj
  /\ ~hup[o]
  /\ echoed[o] < Len(ptyIn[o])
  /\ echoed' = [echoed EXCEPT ![o] = @ + 1]
  /\ UNCHANGED <<ptyIn, hup, geom>>
  /\ UNCHANGED <<regVars, objVars, readerVars, callVars, histVars>>
  /\ Quiet

\* The child's terminal echoes all of its pending input in one burst.
EchoAll(o) ==
  /\ o <= nobj
  /\ ~hup[o]
  /\ echoed[o] < Len(ptyIn[o])
  /\ echoed' = [echoed EXCEPT ![o] = Len(ptyIn[o])]
  /\ UNCHANGED <<ptyIn, hup, geom>>
  /\ UNCHANGED <<regVars, objVars, readerVars, callVars, histVars>>
  /\ Quiet

\* The child exits or the PTY fails.
Hangup(o) ==
  /\ o <= nobj
  /\ ~hup[o]
  /\ hup' = [hup EXCEPT ![o] = TRUE]
  /\ UNCHANGED <<ptyIn, echoed, geom>>
  /\ UNCHANGED <<regVars, objVars, readerVars, callVars, histVars>>
  /\ Quiet

\* ------------------------------------------------------------------ Next
\* The registry under two concurrent callers that spawn, close and query.
\* The children are silent and stay alive, so every reader is at the head of
\* its loop, blocked in read, or has seen its flag cleared.
Next ==
  \/ \E t \in Pair, id \in Ids : CallSpawn(t, id, MaxObj)
  \/ \E t \in Pair : SpawnCheck(t)
  \/ \E t \in Pair : SpawnConstruct(t)
  \/ \E t \in Pair : SpawnInsert(t)
  \/ \E t \in Pair, id \in Ids : CallClose(t, id)
  \/ \E t \in Pair : CloseRemove(t)
  \/ \E t \in Pair : CloseFlag(t)
  \/ \E t \in Pair : CloseDrop(t)
  \/ \E t \in Pair : CallList(t)
  \/ \E t \in Pair : ListSessions(t)
  \/ \E t \in Pair, id \in Ids : CallHas(t, id)
  \/ \E t \in Pair : HasSession(t)
  \/ \E o \in Objs : ReaderCheck(o)

Spec == Init /\ [][Next]_vars

\* One caller using every operation of the registry on two identifiers.  The
\* children are silent and alive and the readers, which no operation of the
\* registry waits for or looks at, are left where they started.
UseNext ==
  \/ \E t \in Users, id \in Ids : CallSpawn(t, id, MaxObj)
  \/ \E t \in Users : SpawnCheck(t)
  \/ \E t \in Users : SpawnConstruct(t)
  \/ \E t \in Users : SpawnInsert(t)
  \/ \E t \in Users, id \in Ids, d \in Datas : CallWrite(t, id, d)
  \/ \E t \in Users : WriteLookup(t)
  \/ \E t \in Users : WriteLock(t)
  \/ \E t \in Users : WriteAll(t)
  \/ \E t \in Users, id \in Ids, g \in Geoms \ {InitGeom} : CallResize(t, id, g)
  \/ \E t \in Users : ResizeLookup(t)
  \/ \E t \in Users : ResizeLock(t)
  \/ \E t \in Users : ResizeApply(t)
  \/ \E t \in Users, id \in Ids : CallClose(t, id)
  \/ \E t \in Users : CloseRemove(t)
  \/ \E t \in Users : CloseFlag(t)
  \/ \E t \in Users : CloseDrop(t)
  \/ \E t \in Users : CallList(t)
  \/ \E t \in Users : ListSessions(t)
  \/ \E t \in Users, id \in Ids : CallHas(t, id)
  \/ \E t \in Users : HasSession(t)

UseSpec == Init /\ [][UseNext]_vars

\* The same caller and operations, writing one byte at a time, with children
\* that may hang up, so that a write or a resize of a registered session can
\* fail.
FrameNext ==
  \/ \E t \in Users, id \in Ids : CallSpawn(t, id, MaxObj)
  \/ \E t \in Users : SpawnCheck(t)
  \/ \E t \in Users : SpawnConstruct(t)
  \/ \E t \in Users : SpawnInsert(t)
  \/ \E t \in Users, id \in Ids : CallWrite(t, id, <<1>>)
  \/ \E t \in Users : WriteLookup(t)
  \/ \E t \in Users : WriteLock(t)
  \/ \E t \in Users : WriteAll(t)
  \/ \E t \in Users, id \in Ids, g \in Geoms \ {InitGeom} : CallResize(t, id, g)
  \/ \E t \in Users : ResizeLookup(t)
  \/ \E t \in Users : ResizeLock(t)
  \/ \E t \in Users : ResizeApply(t)
  \/ \E t \in Users, id \in Ids : CallClose(t, id)
  \/ \E t \in Users : CloseRemove(t)
  \/ \E t \in Users : CloseFlag(t)
  \/ \E t \in Users : CloseDrop(t)
  \/ \E t \in Users : CallList(t)
  \/ \E t \in Users : ListSessions(t)
  \/ \E t \in Users, id \in Ids : CallHas(t, id)
  \/ \E t \in Users : HasSession(t)
  \/ \E t \in Users : WriteFail(t)
  \/ \E o \in Objs : Hangup(o)

FrameSpec == Init /\ [][FrameNext]_vars

\* One caller spawning, writing to and closing one identifier, with the
\* whole life of the PTY behind it: the child echoes, the child hangs up,
\* the reader reads and emits, emission may fail.
IoNext ==
  \/ \E t \in Users, id \in IoIds : CallSpawn(t, id, MaxIoObj)
  \/ \E t \in Users : SpawnCheck(t)
  \/ \E t \in Users : SpawnConstruct(t)
  \/ \E t \in Users : SpawnInsert(t)
  \/ \E t \in Users, id \in IoIds, d \in Datas : CallWrite(t, id, d)
  \/ \E t \in Users : WriteLookup(t)
  \/ \E t \in Users : WriteLock(t)
  \/ \E t \in Users : WriteAll(t)
  \/ \E t \in Users : WriteFail(t)
  \/ \E t \in Users, id \in IoIds : CallClose(t, id)
  \/ \E t \in Users : CloseRemove(t)
  \/ \E t \in Users : CloseFlag(t)
  \/ \E t \in Users : CloseDrop(t)
  \/ \E o \in Objs : ReaderCheck(o)
  \/ \E o \in Objs : ReaderRead(o)
  \/ \E o \in Objs : Echo(o)
  \/ \E o \in Objs : Hangup(o)

IoSpec == Init /\ [][IoNext]_vars

\* One caller spawning one identifier and writing whole blocks to it; the
\* child echoes in bursts, the reader takes a buffer full at a time, and the
\* child may hang up.
BulkNext ==
  \/ \E t \in Users, id \in IoIds : CallSpawn(t, id, MaxIoObj)
  \/ \E t \in Users : SpawnCheck(t)
  \/ \E t \in Users : SpawnConstruct(t)
  \/ \E t \in Users : SpawnInsert(t)
  \/ \E t \in Users, id \in IoIds : CallWriteBlock(t, id)
  \/ \E t \in Users : WriteLookup(t)
  \/ \E t \in Users : WriteLock(t)
  \/ \E t \in Users : WriteAll(t)
  \/ \E o \in Objs : ReaderCheck(o)
  \/ \E o \in Objs : ReaderReadFull(o)
  \/ \E o \in Objs : EchoAll(o)
  \/ \E o \in Objs : Hangup(o)

BulkSpec == Init /\ [][BulkNext]_vars

\* Two callers writing to one session at once, write_all handing the bytes
\* over one at a time.
SerialNext ==
  \/ \E t \in Users, id \in IoIds : CallSpawn(t, id, MaxIoObj)
  \/ \E t \in Users : SpawnCheck(t)
  \/ \E t \in Users : SpawnConstruct(t)
  \/ \E t \in Users : SpawnInsert(t)
  \/ \E t \in Pair, id \in IoIds : CallWriteMarked(t, id)
  \/ \E t \in Pair : WriteLookup(t)
  \/ \E t \in Pair : WriteLock(t)
  \/ \E t \in Pair : WriteSome(t)
  \/ \E t \in Pair : WriteAll(t)

SerialSpec == Init /\ [][SerialNext]_vars

\* Three callers on one identifier: one spawns it and writes to it, one
\* resizes it, one closes it, each holding and waiting for the locks as the
\* code does.  The children are silent and alive.
LockNext ==
  \/ \E t \in Users, id \in IoIds : CallSpawn(t, id, MaxIoObj)
  \/ \E t \in Threads : SpawnCheck(t)
  \/ \E t \in Threads : SpawnConstruct(t)
  \/ \E t \in Threads : SpawnInsert(t)
  \/ \E t \in Pair, id \in IoIds, d \in Datas : CallWrite(t, id, d)
  \/ \E t \in Threads : WriteLookup(t)
  \/ \E t \in Threads : WriteLock(t)
  \/ \E t \in Threads : WriteAll(t)
  \/ \E t \in Resizers, id \in IoIds, g \in Geoms \ {InitGeom} : CallResize(t, id, g)
  \/ \E t \in Threads : ResizeLookup(t)
  \/ \E t \in Threads : ResizeLock(t)
  \/ \E t \in Threads : ResizeApply(t)
  \/ \E t \in Closers, id \in IoIds : CallClose(t, id)
  \/ \E t \in Threads : WriterWait(t)
  \/ \E t \in Threads : CloseRemove(t)
  \/ \E t \in Threads : CloseFlag(t)
  \/ \E t \in Threads : CloseDrop(t)
  \/ \E o \in Objs : ReaderCheck(o)

LockSpec == Init /\ [][LockNext]_vars

\* Every reader is a thread of its own, which the scheduler runs, and the
\* child's terminal goes on echoing while it lives.  Callers are under no
\* obligation to call, and the child under none to hang up.
IoFairness ==
  \A o \in Objs :
    /\ WF_vars(ReaderCheck(o))
    /\ WF_vars(ReaderRead(o))
    /\ WF_vars(Echo(o))

IoFairSpec == IoSpec /\ IoFairness


\* ================================================================ claims
Range(q) == {q[i] : i \in 1..Len(q)}

\* A reader task that is live: its flag is set and its loop has not ended.
LiveReader(o) == o <= nobj /\ running[o] /\ rpc[o] # "done"

\* C1: has_session(id) returns true exactly when the most recent successful
\* spawn_session or close_session on id was a spawn_session.
C1_HasSessionReflectsLastSpawn ==
  [][\A t \in Threads :
       (pc[t] = "has" /\ pc'[t] = "idle") =>
         result'[t].tag = IF lastSucc[argId[t]] = "spawn" THEN "true" ELSE "false"]_vars

\* has_session has answered false for an identifier that was spawned and
\* then closed, while another identifier is registered.
C1_Witness ==
  \E t \in Threads, id \in Ids, other \in Ids :
    /\ result[t].tag = "false"
    /\ lastSucc[id] = "close"
    /\ lastSucc[other] = "spawn"
    /\ contains_key(sessions, other)

\* C2: spawn_session(id) while id is registered fails with the duplicate
\* error and leaves the registered session as it is: the map, every liveness
\* flag and every reader task are unchanged and no session is constructed.
C2_DuplicateSpawnRejected ==
  [][\A t \in Threads :
       (pc[t] = "s_check" /\ contains_key(sessions, argId[t]) /\ pc'[t] # "s_check") =>
         /\ pc'[t] = "idle"
         /\ result'[t].tag = "AlreadyExists"
         /\ UNCHANGED <<sessions, nobj, sid, running, rpc, events>>]_vars

\* A spawn was rejected as a duplicate and the registered session is live.
C2_Witness ==
  \E t \in Threads, id \in Ids :
    /\ result[t].tag = "AlreadyExists"
    /\ contains_key(sessions, id)
    /\ LiveReader(sessions[id])

\* C3: two concurrent spawn_session calls with one identifier never leave
\* two live reader tasks under that identifier, and once both have returned
\* the identifier is registered with one live session.
C3_OneLiveReaderPerId ==
  \A id \in Ids :
    /\ Cardinality({o \in Objs : LiveReader(o) /\ sid[o] = id}) <= 1
    /\ (\A t \in Threads : pc[t] = "idle") /\ lastSucc[id] = "spawn"
         => contains_key(sessions, id) /\ running[sessions[id]]


\* The data of the output notifications of q, concatenated in order.
RECURSIVE OutputBytes(_)
OutputBytes(q) ==
  IF q = <<>> THEN <<>>
  ELSE (IF Head(q).kind = "output" THEN Head(q).data ELSE <<>>) \o OutputBytes(Tail(q))

ExitIndexes(q) == {i \in 1..Len(q) : q[i].kind = "exit"}

\* C4 as claimed: once close_session has closed a session, its reader emits
\* no further notification.
C4_NoEventAfterClose ==
  \A o \in Objs : evAtClose[o] >= 0 => Len(events[o]) = evAtClose[o]

\* C4 as amended: once close_session has returned, the closed session's
\* reader emits at most one more notification, the one of the read that was
\* pending, and none once it has looked at the liveness flag again.
C4_AtMostOneEventAfterClose ==
  \A o \in Objs :
    evAtClose[o] >= 0 =>
      /\ Len(events[o]) <= evAtClose[o] + 1
      /\ Len(events[o]) = evAtClose[o] + 1 => rpc[o] \in {"loop", "done"}

\* A closed session's reader has emitted an output notification after the
\* close and has then stopped.
C4_Witness ==
  \E o \in Objs :
    /\ evAtClose[o] >= 0
    /\ Len(events[o]) = evAtClose[o] + 1
    /\ events[o][Len(events[o])].kind = "output"
    /\ rpc[o] = "done"

\* C5: after close_session(id) has succeeded and until a spawn_session(id)
\* succeeds, write_to_session, resize_session and close_session on id fail
\* with the not-found error and has_session(id) answers false.
C5_ClosedIdIsNotFound ==
  [][\A t \in Threads :
       (/\ pc[t] \in {"w_lookup", "r_lookup", "c_remove", "has"}
        /\ lastSucc[argId[t]] = "close"
        /\ pc'[t] # pc[t]) =>
         /\ pc'[t] = "idle"
         /\ result'[t].tag = IF pc[t] = "has" THEN "false" ELSE "NotFound"]_vars

\* An operation has reported not-found for a closed identifier whose
\* session had accepted a write before.
C5_Witness ==
  \E t \in Threads, o \in Objs :
    /\ result[t].tag = "NotFound"
    /\ evAtClose[o] >= 0
    /\ accepted[o] # <<>>
    /\ lastSucc[sid[o]] = "close"

\* C6: a list_sessions() that runs after close_session(id) has succeeded and
\* before a spawn_session(id) succeeds does not contain id, whatever the
\* closed session's reader is doing.
C6_ClosedIdNotListed ==
  [][\A t \in Threads :
       (pc[t] = "list" /\ pc'[t] = "idle") =>
         /\ result'[t].tag = "list"
         /\ \A id \in Ids : lastSucc[id] = "close" => id \notin Range(result'[t].ids)]_vars

\* list_sessions has returned the one other identifier while the closed
\* session's reader is still blocked in its read.
C6_Witness ==
  \E t \in Threads, o \in Objs :
    /\ result[t].tag = "list"
    /\ Len(result[t].ids) = 1
    /\ evAtClose[o] >= 0
    /\ lastSucc[sid[o]] = "close"
    /\ sid[o] \notin Range(result[t].ids)
    /\ rpc[o] = "read"

\* C7: write_to_session and resize_session on an identifier that is not
\* registered fail with the not-found error and change neither the map nor
\* any liveness flag, PTY input stream or PTY size.
C7_UnknownIdNoEffect ==
  [][\A t \in Threads :
       (/\ pc[t] \in {"w_lookup", "r_lookup"}
        /\ ~contains_key(sessions, argId[t])
        /\ pc'[t] # pc[t]) =>
         /\ pc'[t] = "idle"
         /\ result'[t].tag = "NotFound"
         /\ UNCHANGED <<sessions, running, ptyIn, geom, wlock, mlock,
                        mapReaders>>]_vars

\* Not-found was reported for an identifier never spawned while a resized
\* session that has accepted a write is registered.
C7_Witness ==
  \E t \in Threads, id \in Ids, other \in Ids :
    /\ result[t].tag = "NotFound"
    /\ lastSucc[id] = "none"
    /\ contains_key(sessions, other)
    /\ ptyIn[sessions[other]] # <<>>
    /\ geom[sessions[other]] # InitGeom

\* C8: a reader emits exactly one exit notification when its loop ends on
\* end-of-stream or a read error, never more than one, and nothing after it.
C8_OneFinalExit ==
  \A o \in Objs :
    /\ Cardinality(ExitIndexes(events[o])) <= 1
    /\ ExitIndexes(events[o]) \subseteq {Len(events[o])}
    /\ rres[o] \in {"eof", "err"} => rpc[o] = "done" /\ ExitIndexes(events[o]) # {}
    /\ ExitIndexes(events[o]) # {} => rpc[o] = "done" /\ rres[o] \in {"eof", "err"}

\* A reader has emitted output and then its exit at end-of-stream.
C8_Witness ==
  \E o \in Objs :
    /\ rpc[o] = "done"
    /\ rres[o] = "eof"
    /\ Len(events[o]) >= 2
    /\ events[o][1].kind = "output"
    /\ events[o][Len(events[o])] = ExitEvent("Some0")

\* C9: the data of a session's output notifications, in emission order, are
\* the bytes its reader has read so far, a prefix of what the PTY has
\* produced: nothing lost, reordered, duplicated or merged.
C9_OutputIsReadPrefix ==
  \A o \in Objs :
    /\ OutputBytes(events[o]) = SubSeq(ptyIn[o], 1, nread[o])
    /\ nread[o] <= echoed[o]
    /\ \A i \in 1..Len(events[o]) :
         events[o][i].kind = "output" => events[o][i].data # <<>>

\* Two reads have produced two output notifications with two different bytes.
C9_Witness ==
  \E o \in Objs :
    /\ Len(events[o]) >= 2
    /\ events[o][1] = OutputEvent(<<1>>)
    /\ events[o][2] = OutputEvent(<<2>>)



\* The session is closed or displaced, its PTY has hung up, or one of its
\* notifications could not be emitted.
Disturbed(o) == ~running[o] \/ hup[o] \/ emitFailed[o]

\* C10: for a live session whose PTY echoes, the bytes of every acknowledged
\* write eventually appear in its output notifications, verbatim and in
\* write order, nothing lost, reordered or duplicated, unless the session is
\* closed, its PTY hangs up or emission fails: from some point on the output
\* data of every undisturbed session are the bytes it has acknowledged.
C10_AcceptedBytesEventuallyOutput ==
  <>[](\A o \in Objs : Disturbed(o) \/ OutputBytes(events[o]) = accepted[o])

\* Both bytes of an acknowledged two-byte write have come out of a session
\* that is still live.
C10_Witness ==
  \E o \in Objs :
    /\ accepted[o] = <<1, 2>>
    /\ OutputBytes(events[o]) = <<1, 2>>
    /\ ~Disturbed(o)

\* C11: a write in progress on a session does not hold up a resize of that
\* session and a resize in progress does not hold up a write: whatever else
\* is pending on the map lock, the other call can take its next lock.
C11_WriteAndResizeIndependent ==
  \A t \in Threads, u \in Threads :
    /\ (pc[t] = "w_io" /\ pc[u] \in {"r_lookup", "r_lock"} /\ argId[u] = argId[t])
         => ENABLED (ResizeLookup(u) \/ ResizeLock(u))
    /\ (pc[t] = "r_io" /\ pc[u] \in {"w_lookup", "w_lock"} /\ argId[u] = argId[t])
         => ENABLED (WriteLookup(u) \/ WriteLock(u))

\* The session close_session has taken out of the map and not yet dropped.
Removed(o) == \E t \in Threads : pc[t] \in {"c_close", "c_drop"} /\ tobj[t] = o

\* C12: whenever a caller can acquire the map lock, shared or exclusive,
\* every session close_session has removed from the map has its liveness
\* flag cleared: a removed session whose flag is still set exists only
\* while its remover holds the map lock exclusively.
C12_NoRemovedButOpen ==
  \A o \in Objs :
    /\ evAtClose[o] >= 0 => ~running[o]
    /\ Removed(o) /\ running[o] =>
         /\ ~CanRead
         /\ \A u \in Threads : ~CanWrite(u)

\* A session is removed with its flag still set while another caller waits
\* to ask for its identifier.
C12_Witness ==
  \E o \in Objs, u \in Threads :
    /\ Removed(o)
    /\ running[o]
    /\ pc[u] \in {"has", "list"}
    /\ ~CanRead

\* C13: a spawn_session whose construction fails returns the spawn error and
\* keeps nothing: the map is unchanged, no session object and no reader
\* exists that did not before, and no notification has been or will be
\* emitted for the attempt.
C13_FailedSpawnKeepsNothing ==
  [][\A t \in Threads :
       (pc[t] = "s_construct" /\ pc'[t] = "idle") =>
         /\ result'[t].tag = "SpawnError"
         /\ UNCHANGED <<sessions, nobj, sid, running, rpc, events, ptyVars>>]_vars

\* A spawn has failed while one identifier is registered and the other has
\* never been.
C13_Witness ==
  \E t \in Threads, id \in Ids, other \in Ids :
    /\ result[t].tag = "SpawnError"
    /\ contains_key(sessions, other)
    /\ ~contains_key(sessions, id)
    /\ lastSucc[id] = "none"

\* C14: once close() has cleared a session's liveness flag, its reader emits
\* at most one more notification, the one of the read that was pending or in
\* progress: a notification comes only out of a read already begun and is
\* followed by the head of the loop or the end, and from the head of the
\* loop the reader goes to the end and into no further read.
C14_OneMoreEventAfterFlagCleared ==
  [][\A o \in Objs :
       (o <= nobj /\ ~running[o]) =>
         /\ events'[o] # events[o] =>
              /\ rpc[o] = "read"
              /\ rpc'[o] \in {"loop", "done"}
              /\ Len(events'[o]) = Len(events[o]) + 1
         /\ rpc[o] = "loop" => rpc'[o] \in {"loop", "done"}
         /\ rpc[o] = "done" => rpc'[o] = "done"]_vars

\* A reader whose session was closed during its read has emitted the exit
\* notification of that read, one notification after the close, and ended.
C14_Witness ==
  \E o \in Objs :
    /\ ~running[o]
    /\ evAtClose[o] >= 0
    /\ Len(events[o]) = evAtClose[o] + 1
    /\ events[o][Len(events[o])].kind = "exit"
    /\ rpc[o] = "done"

\* The reader's read does not return: nothing is pending on the PTY and it
\* has not hung up.
ReadBlocked(o) == rpc[o] = "read" /\ nread[o] = echoed[o] /\ ~hup[o]

\* C15: after close() has cleared the liveness flag the reader terminates,
\* provided its pending read returns: in the end every reader whose flag is
\* cleared has ended, or sits in a read that never returns.
C15_ReaderTerminatesAfterClose ==
  <>[](\A o \in Objs :
         (o <= nobj /\ ~running[o]) => (rpc[o] = "done" \/ ReadBlocked(o)))

\* A reader that had read before has ended on the cleared flag, with no
\* notification after the close and no exit notification.
C15_Witness ==
  \E o \in Objs :
    /\ ~running[o]
    /\ rpc[o] = "done"
    /\ rres[o] = "none"
    /\ evAtClose[o] >= 0
    /\ Len(events[o]) = evAtClose[o]
    /\ nread[o] > 0

\* C16: every iteration of the reader loop starts with the check of the
\* liveness flag: a read is begun only from the head of the loop with the
\* flag set, and a read that does not end the loop leads back to the head.
\* The check that finds the flag cleared ends the loop at once and silently:
\* it reads nothing and emits nothing, and an ended reader does neither.
C16_FlagCheckedBeforeEveryRead ==
  [][\A o \in Objs :
       /\ (rpc[o] # "read" /\ rpc'[o] = "read") => (rpc[o] = "loop" /\ running[o])
       /\ (rpc[o] = "read" /\ rpc'[o] # "read") => rpc'[o] \in {"loop", "done"}
       /\ (rpc[o] = "loop" /\ ~running[o] /\ rpc'[o] # "loop") =>
            /\ rpc'[o] = "done"
            /\ UNCHANGED <<events[o], nread[o], rres[o], emitFailed[o]>>
       /\ rpc[o] = "done" =>
            /\ rpc'[o] = "done"
            /\ UNCHANGED <<events[o], nread[o], rres[o], emitFailed[o]>>]_vars

\* A reader has ended on the cleared flag with echoed bytes left unread and
\* without an exit notification.
C16_Witness ==
  \E o \in Objs :
    /\ rpc[o] = "done"
    /\ rres[o] = "none"
    /\ ~running[o]
    /\ echoed[o] > nread[o]
    /\ events[o] # <<>>
    /\ ExitIndexes(events[o]) = {}

\* C17: the exit notification carries exit code 0 exactly when the loop
\* ended on a zero-byte read and no exit code exactly when it ended on a
\* read error, and in both cases the loop has ended with that notification
\* as its last, whether or not the emission succeeded.
C17_ExitCodeTellsHowLoopEnded ==
  \A o \in Objs :
    /\ rres[o] = "eof" =>
         rpc[o] = "done" /\ events[o] # <<>> /\ events[o][Len(events[o])] = ExitEvent("Some0")
    /\ rres[o] = "err" =>
         rpc[o] = "done" /\ events[o] # <<>> /\ events[o][Len(events[o])] = ExitEvent("None")
    /\ \A i \in ExitIndexes(events[o]) :
         \/ events[o][i].code = "Some0" /\ rres[o] = "eof"
         \/ events[o][i].code = "None" /\ rres[o] = "err"

\* A read error has ended a loop whose only emission, the exit without a
\* code, failed.
C17_Witness ==
  \E o \in Objs :
    /\ rres[o] = "err"
    /\ rpc[o] = "done"
    /\ events[o] = <<ExitEvent("None")>>
    /\ emitFailed[o]

\* C18: close() is idempotent and does not block.  The call in
\* close_session clears the flag of the removed session and of no other,
\* the second call, made when the session is dropped, leaves every flag as
\* the first left it, neither touches the writer mutex or the master mutex
\* or waits for anything, and no step sets a cleared flag again.
C18_CloseIdempotent ==
  [][/\ \A o \in Objs : (o <= nobj /\ ~running[o]) => ~running'[o]
     /\ \A o \in Objs : close(close(running, o), o) = close(running, o)
     /\ \A t \in Threads :
          /\ pc[t] = "c_close" =>
               /\ ENABLED CloseFlag(t)
               /\ pc'[t] # "c_close" =>
                    /\ running' = [running EXCEPT ![tobj[t]] = FALSE]
                    /\ UNCHANGED <<wlock, mlock>>
          /\ pc[t] = "c_drop" =>
               /\ ENABLED CloseDrop(t)
               /\ pc'[t] # "c_drop" =>
                    /\ ~running'[tobj[t]]
                    /\ UNCHANGED <<running, wlock, mlock>>]_vars

\* close_session has returned after both calls of close(): the session it
\* closed has its flag cleared and another session still has its flag set.
C18_Witness ==
  \E t \in Threads, o \in Objs, other \in Objs :
    /\ result[t].tag = "Ok"
    /\ evAtClose[o] >= 0
    /\ ~running[o]
    /\ lastSucc[sid[o]] = "close"
    /\ other # o
    /\ running[other]
    /\ contains_key(sessions, sid[other])

\* C19: every output notification carries at least one byte and at most a
\* buffer full, 4096 bytes.
C19_OutputCarriesOneToBufSizeBytes ==
  \A o \in Objs : \A i \in 1..Len(events[o]) :
    events[o][i].kind = "output"
      => /\ Len(events[o][i].data) >= 1
         /\ Len(events[o][i].data) <= BufSize

\* More than a buffer full was pending and came out as a full notification
\* followed by the rest; the hang-up's empty read came out as an exit.
C19_Witness ==
  \E o \in Objs :
    /\ Len(events[o]) = 3
    /\ events[o][1].kind = "output" /\ Len(events[o][1].data) = BufSize
    /\ events[o][2].kind = "output" /\ Len(events[o][2].data) = 1
    /\ events[o][3] = ExitEvent("Some0")

\* Where a caller asks for the map lock shared, and where exclusively.
MapReadPcs == {"s_check", "w_lookup", "r_lookup", "list", "has"}

MapWritePcs == {"s_insert", "c_remove"}

\* Caller t cannot go on before caller u lets go of a lock or, parked for
\* the map lock, has had its turn.
WaitsFor(t, u) ==
  \/ pc[t] \in MapReadPcs /\ u \in {mapWriter, mapPending}
  \/ /\ pc[t] \in MapWritePcs
     /\ \/ u = mapWriter
        \/ u \in mapReaders
        \/ u = mapPending /\ u # t
  \/ pc[t] = "w_lock" /\ wlock[tobj[t]] = u
  \/ pc[t] = "r_lock" /\ mlock[tobj[t]] = u

RECURSIVE WaitsWithin(_, _, _)
WaitsWithin(t, u, n) ==
  \/ WaitsFor(t, u)
  \/ n > 1 /\ \E v \in Threads : WaitsFor(t, v) /\ WaitsWithin(v, u, n - 1)

\* The per-session locks caller t holds.
HeldSessionLocks(t) ==
  {<<"writer", o>> : o \in {p \in Objs : wlock[p] = t}}
    \cup {<<"master", o>> : o \in {p \in Objs : mlock[p] = t}}

\* The next step of caller t in the operation it is in.
CallerStep(t) ==
  \/ SpawnCheck(t) \/ SpawnConstruct(t) \/ SpawnInsert(t)
  \/ WriteLookup(t) \/ WriteLock(t) \/ WriteAll(t)
  \/ ResizeLookup(t) \/ ResizeLock(t) \/ ResizeApply(t)
  \/ CloseRemove(t) \/ CloseFlag(t) \/ CloseDrop(t)
  \/ ListSessions(t) \/ HasSession(t)

\* C20: the registry operations are deadlock-free.  No chain of callers
\* waiting for each other's locks closes into a cycle, and a caller that
\* cannot step waits for such a lock and for nothing else; a caller holds
\* at most one per-session lock, holds it under the shared map lock taken
\* before, and asks for no lock while holding it; spawn_session holds no
\* map lock while it constructs the session; a reader's flag check is
\* enabled whatever locks are held.
C20_RegistryDeadlockFree ==
  /\ \A t \in Threads :
       /\ ~WaitsWithin(t, t, Cardinality(Threads))
       /\ pc[t] # "idle" => (ENABLED CallerStep(t) \/ \E u \in Threads : WaitsFor(t, u))
       /\ Cardinality(HeldSessionLocks(t)) <= 1
       /\ HeldSessionLocks(t) # {}
            => t \in mapReaders /\ pc[t] \in {"w_io", "r_io"}
       /\ pc[t] = "s_construct" => (t \notin mapReaders /\ mapWriter # t)
  /\ \A o \in Objs : rpc[o] = "loop" => ENABLED ReaderCheck(o)

\* A chain of three: one caller waits for a per-session lock, its holder is
\* inside the PTY write, and a third is parked for the exclusive map lock
\* behind both.
C20_Witness ==
  \E t \in Threads, u \in Threads, v \in Threads :
    /\ pc[t] = "w_io"
    /\ pc[u] = "w_lock" /\ WaitsFor(u, t)
    /\ mapPending = v /\ WaitsFor(v, u) /\ WaitsFor(v, t)

\* Session o is the value of its identifier in the map.
InRegistry(o) == o <= nobj /\ sessions[sid[o]] = o

\* Session o is constructed and its spawn_session has yet to insert it.
BeingInserted(o) == \E t \in Threads : pc[t] = "s_insert" /\ tobj[t] = o

\* Session o has left the registry: removed by close_session or displaced
\* by an insert under its identifier.
LeftRegistry(o) == o <= nobj /\ ~InRegistry(o) /\ ~BeingInserted(o)

Writing(o) == {t \in Threads : pc[t] = "w_io" /\ tobj[t] = o}

\* C22: concurrent write_to_session calls on one session are serialized by
\* the writer mutex.  At most one call is between writer.lock() and its
\* return, and the PTY's input is the data of the finished writes, each
\* whole and one after the other, followed by what the call in progress has
\* handed over so far.
C22_WritesNeverInterleave ==
  \A o \in Objs :
    /\ Cardinality(Writing(o)) <= 1
    /\ \A t \in Writing(o) : wlock[o] = t
    /\ \/ Writing(o) = {} /\ ptyIn[o] = accepted[o]
       \/ \E t \in Writing(o) :
            ptyIn[o] = accepted[o] \o SubSeq(argData[t], 1, wdone[t])

\* One caller has handed over the first byte of its data while the other
\* waits for the writer mutex, after an earlier write that went in whole.
C22_Witness ==
  \E o \in Objs, t \in Threads, u \in Threads :
    /\ t # u
    /\ pc[t] = "w_io" /\ tobj[t] = o /\ wdone[t] = 1
    /\ pc[u] = "w_lock" /\ tobj[u] = o
    /\ accepted[o] = Marked[u]
    /\ ptyIn[o] = Marked[u] \o <<Marked[t][1]>>

\* Where a caller is inside write_to_session, resize_session, list_sessions
\* or has_session.
ReadOnlyPcs == WritePcs \cup {"r_lookup", "r_lock", "r_io", "list", "has"}

\* C23: frame conditions of the registry.  No step of write_to_session,
\* resize_session, list_sessions or has_session, succeeding or failing,
\* changes the map or a liveness flag; close_session(id), succeeding,
\* removes id and nothing else from the map and clears the flag of the
\* session it removed and no other; a close_session that fails and a
\* spawn_session rejected as a duplicate change neither.
C23_RegistryFrame ==
  [][\A t \in Threads :
       /\ (pc[t] \in ReadOnlyPcs /\ pc'[t] # pc[t])
            => UNCHANGED <<sessions, running>>
       /\ (pc[t] = "c_remove" /\ pc'[t] = "c_close")
            => /\ sessions' = [sessions EXCEPT ![argId[t]] = NoObj]
               /\ tobj'[t] = sessions[argId[t]]
               /\ UNCHANGED running
       /\ (pc[t] \in {"c_close", "c_drop"} /\ pc'[t] # pc[t])
            => /\ UNCHANGED sessions
               /\ running' = [running EXCEPT ![tobj[t]] = FALSE]
       /\ (pc[t] = "c_remove" /\ pc'[t] = "idle")
            => /\ result'[t].tag = "NotFound"
               /\ UNCHANGED <<sessions, running>>
       /\ (pc[t] = "s_check" /\ pc'[t] = "idle")
            => /\ result'[t].tag = "AlreadyExists"
               /\ UNCHANGED <<sessions, running>>]_vars

\* A resize has failed on a session whose PTY has hung up, and the session
\* is still registered with its flag set, next to another registered one.
C23_Witness ==
  \E t \in Threads, id \in Ids, other \in Ids :
    /\ id # other
    /\ result[t].tag = "IoError"
    /\ contains_key(sessions, id) /\ contains_key(sessions, other)
    /\ hup[sessions[id]] /\ running[sessions[id]]
    /\ geom[sessions[id]] = InitGeom /\ ptyIn[sessions[id]] = <<>>

\* C24: list_sessions returns the registered identifiers, each once, in
\* some order: an identifier is in the sequence exactly if it is a key of
\* the map the call reads, which is exactly if a has_session of it that
\* another caller is about to evaluate on that same state answers true.
C24_ListAgreesWithHas ==
  [][\A t \in Threads :
       (pc[t] = "list" /\ pc'[t] = "idle") =>
         LET ids == result'[t].ids IN
           /\ result'[t].tag = "list"
           /\ \A i \in 1..Len(ids), j \in 1..Len(ids) : ids[i] = ids[j] => i = j
           /\ \A id \in Ids : id \in Range(ids) <=> contains_key(sessions, id)
           /\ \A u \in Threads \ {t} :
                pc[u] = "has" =>
                  /\ ENABLED HasSession(u)
                  /\ argId[u] \in Range(ids)
                       <=> ENABLED (HasSession(u) /\ result'[u].tag = "true")]_vars

\* list_sessions has returned one of two identifiers, the other having been
\* closed, while another caller is about to ask has_session of the closed
\* one.
C24_Witness ==
  \E t \in Threads, u \in Threads :
    /\ result[t].tag = "list"
    /\ Len(result[t].ids) = 1
    /\ pc[u] = "has"
    /\ argId[u] \notin Range(result[t].ids)
    /\ lastSucc[argId[u]] = "close"

====
